---- MODULE Spec2Model ----
(***************************************************************************)
(* A model of the Anthropic -> Ollama translation proxy                    *)
(* (ollama-proxy/anthro_to_openai_proxy.py) and of the CLI template        *)
(* applier (tool-creator/.../scripts/apply_template.py).                   *)
(*                                                                         *)
(* JSON / Python values are tagged records:                                *)
(*   [t |-> "null"]                      None / JSON null                  *)
(*   [t |-> "str",   s |-> "hi"]         a string                          *)
(*   [t |-> "num",   s |-> "0.7"]        a number, by its decimal literal  *)
(*   [t |-> "bool",  b |-> TRUE]         a boolean                         *)
(*   [t |-> "list",  items |-> <<..>>]   a list                            *)
(*   [t |-> "tuple", items |-> <<..>>]   a Python tuple                    *)
(*   [t |-> "dict",  d |-> f]            a dict, f a function on its keys  *)
(* A Python computation yields [ok |-> TRUE, val |-> v] when it returns v  *)
(* and [ok |-> FALSE, exc |-> "IndexError"] when it raises.                *)
(***************************************************************************)
EXTENDS Integers, Sequences, FiniteSets, TLC

VARIABLES
    modelMap,   \* the module-global DEFAULT_MODEL_MAP dict
    body,       \* per request: what `await request.json()` will yield
    pc,         \* per request: position of the handle_messages coroutine
    payload,    \* per request: the JSON body posted to the backend (or Null)
    calls,      \* per request: number of client.post calls issued
    reply,      \* per request: what the backend call produced (or Null)
    ret,        \* per request: what handle_messages returned or raised (or Null)
    input,      \* pure-function harness: the arguments
    output,     \* pure-function harness: the result (or Null)
    args,       \* apply_template: the parsed command line
    fs,         \* apply_template: the file system (path -> directory state)
    fs0,        \* apply_template: the file system when main() started
    tpc,        \* apply_template: position in main()
    stdout      \* apply_template: lines printed so far

vars == <<modelMap, body, pc, payload, calls, reply, ret,
          input, output, args, fs, fs0, tpc, stdout>>
proxyVars == <<modelMap, body, pc, payload, calls, reply, ret>>
pureVars == <<input, output>>
templateVars == <<args, fs, fs0, tpc, stdout>>

----------------------------------------------------------------------------
(* Bounds of the model                                                     *)

MaxBlocks == 2      \* longest content list given to the normalizer
MaxMsgs == 2        \* longest message list given to the translator
NumRequests == 2    \* requests in flight in the concurrent specification
MaxNameLen == 3     \* longest --tool-name given to apply_template

----------------------------------------------------------------------------
(* JSON / Python values                                                    *)

Null == [t |-> "null"]
Str(s) == [t |-> "str", s |-> s]
Num(s) == [t |-> "num", s |-> s]
Bool(b) == [t |-> "bool", b |-> b]
List(items) == [t |-> "list", items |-> items]
Tuple(items) == [t |-> "tuple", items |-> items]
Dict(d) == [t |-> "dict", d |-> d]
EmptyDict == Dict([k \in {} |-> Null])

IsStr(v) == v.t = "str"
IsList(v) == v.t = "list"
IsDict(v) == v.t = "dict"
IsNone(v) == v.t = "null"

Return(v) == [ok |-> TRUE, val |-> v]
Raise(e) == [ok |-> FALSE, exc |-> e]

\* dict.get(key, default) on a value known to be a dict
Get(v, key, default) == IF key \in DOMAIN v.d THEN v.d[key] ELSE default
HasKey(v, key) == key \in DOMAIN v.d

\* Python truthiness of a JSON value (`if system:`)
Truthy(v) ==
    CASE v.t = "null" -> FALSE
      [] v.t = "str" -> v.s # ""
      [] v.t = "num" -> v.s \notin {"0", "0.0"}
      [] v.t = "bool" -> v.b
      [] v.t = "list" -> v.items # <<>>
      [] v.t = "tuple" -> v.items # <<>>
      [] v.t = "dict" -> DOMAIN v.d # {}

\* str(x) for the scalars the model feeds to it
PyStr(v) ==
    CASE v.t = "str" -> v.s
      [] v.t = "num" -> v.s
      [] v.t = "bool" -> IF v.b THEN "True" ELSE "False"
      [] v.t = "null" -> "None"
      [] OTHER -> "<repr>"

\* All sequences over S of length at most n
RECURSIVE SeqsUpTo(_, _)
SeqsUpTo(S, n) ==
    IF n = 0 THEN {<<>>}
    ELSE LET shorter == SeqsUpTo(S, n - 1)
         IN shorter \cup {Append(q, x) : q \in {r \in shorter : Len(r) = n - 1}, x \in S}

----------------------------------------------------------------------------
(* Helpers of the proxy (anthro_to_openai_proxy.py)                        *)

\* The table the module is loaded with
DEFAULT_MODEL_MAP ==
    [m \in {"claude-sonnet-4-5-20250514", "claude-opus-4-5-20251101",
            "claude-haiku-4-5-20250514", "claude-sonnet-4-5", "claude-opus-4-5",
            "claude-haiku-4-5", "claude-3-5-sonnet-latest",
            "claude-3-5-haiku-latest", "claude-3-opus-latest"} |->
        CASE m \in {"claude-sonnet-4-5-20250514", "claude-sonnet-4-5",
                    "claude-3-5-sonnet-latest"} -> "claude-sonet-4-5:latest"
          [] m \in {"claude-opus-4-5-20251101", "claude-opus-4-5",
                    "claude-3-opus-latest"} -> "claude-opus-4-5:latest"
          [] OTHER -> "claude-haiku-4-5:latest"]

\* map_model without its fallback: table.get(anthropic_model)
map_model_NoFallback(table, anthropic_model) ==
    IF IsStr(anthropic_model) /\ anthropic_model.s \in DOMAIN table
    THEN Str(table[anthropic_model.s])
    ELSE Null

\* map_model, reading the table `table`: table.get(anthropic_model, anthropic_model)
map_model(table, anthropic_model) ==
    IF IsStr(anthropic_model) /\ anthropic_model.s \in DOMAIN table
    THEN Str(table[anthropic_model.s])
    ELSE anthropic_model

\* "\n".join(texts): raises TypeError on an element that is not a str
RECURSIVE JoinNewline(_)
JoinNewline(texts) ==
    IF texts = <<>> THEN Return(Str(""))
    ELSE IF \E k \in 1..Len(texts) : ~IsStr(texts[k]) THEN Raise("TypeError")
    ELSE IF Len(texts) = 1 THEN Return(Str(texts[1].s))
    ELSE Return(Str(texts[1].s \o "\n" \o JoinNewline(Tail(texts)).val.s))

\* The loop of extract_text_from_content: the list `texts` after the items
RECURSIVE CollectTexts(_)
CollectTexts(items) ==
    IF items = <<>> THEN <<>>
    ELSE LET item == Head(items)
             rest == CollectTexts(Tail(items))
         IN IF IsStr(item) THEN <<item>> \o rest
            ELSE IF IsDict(item)
                 THEN IF Get(item, "type", Null) = Str("text")
                      THEN <<Get(item, "text", Str(""))>> \o rest
                      ELSE IF HasKey(item, "text")
                           THEN <<item.d["text"]>> \o rest
                           ELSE rest
                 ELSE rest

extract_text_from_content(content) ==
    IF IsNone(content) THEN Return(Str(""))
    ELSE IF IsStr(content) THEN Return(content)
    ELSE IF IsList(content) THEN JoinNewline(CollectTexts(content.items))
    ELSE Return(Str(PyStr(content)))

\* The loop of anthropic_messages_to_openai over `messages`, appending to `out`
RECURSIVE ConvertMessages(_, _)
ConvertMessages(messages, out) ==
    IF messages = <<>> THEN Return(List(out))
    ELSE LET m == Head(messages)
         IN IF ~IsDict(m) THEN Raise("AttributeError")
            ELSE LET role == Get(m, "role", Str("user"))
                     content == extract_text_from_content(Get(m, "content", Str("")))
                 IN IF ~content.ok THEN content
                    ELSE ConvertMessages(Tail(messages),
                             Append(out, Dict([k \in {"role", "content"} |->
                                 IF k = "role" THEN role ELSE content.val])))

\* anthropic_messages_to_openai testing `system is not None` instead of `system`
anthropic_messages_to_openai_SystemIfNotNone(messages, system) ==
    LET out == IF ~IsNone(system)
               THEN <<Dict([k \in {"role", "content"} |->
                          IF k = "role" THEN Str("system") ELSE system])>>
               ELSE <<>>
    IN IF IsList(messages) THEN ConvertMessages(messages.items, out)
       ELSE IF messages.t \in {"str", "dict"}
            THEN IF Truthy(messages) THEN Raise("AttributeError")
                 ELSE Return(List(out))
       ELSE Raise("TypeError")

\* `messages` is the JSON value given; `system` is a JSON value (Null if None)
anthropic_messages_to_openai(messages, system) ==
    LET out == IF Truthy(system)
               THEN <<Dict([k \in {"role", "content"} |->
                          IF k = "role" THEN Str("system") ELSE system])>>
               ELSE <<>>
    IN IF IsList(messages) THEN ConvertMessages(messages.items, out)
       ELSE IF messages.t \in {"str", "dict"}
            \* iterating a str yields its characters, a dict its keys: all str
            THEN IF Truthy(messages) THEN Raise("AttributeError")
                 ELSE Return(List(out))
       ELSE Raise("TypeError")

----------------------------------------------------------------------------
(* handle_messages                                                         *)

\* A request body that `await request.json()` cannot parse, with the parser's detail
InvalidBody(detail) == [t |-> "invalid", detail |-> detail]

\* What the backend call can produce: an HTTP response (status, body text,
\* and the body as JSON when it is JSON) or a transport failure.
HttpReply(status, text, json) ==
    [t |-> "http", status |-> status, text |-> text, json |-> json]
TransportFailure(detail) == [t |-> "transport", detail |-> detail]
NotJson == [t |-> "notjson"]

\* A dict literal from a record of its entries
Obj(r) == Dict(r)

\* `except Exception` after a failed parse (line 110): a (dict, int) tuple
InvalidJsonReturn(detail) ==
    Tuple(<<Obj([error |-> Obj([type |-> Str("invalid_request_error"),
                               message |-> Str("Invalid JSON: " \o detail)])]),
            Num("400")>>)

\* `except httpx.HTTPStatusError` (lines 146-150)
StatusErrorReturn(r) ==
    Obj([type |-> Str("error"),
         error |-> Obj([type |-> Str("api_error"),
                        message |-> Str("Ollama error: " \o ToString(r.status)
                                        \o " - " \o r.text)])])

\* `except Exception` around the call (lines 151-155)
ConnectionErrorReturn(detail) ==
    Obj([type |-> Str("error"),
         error |-> Obj([type |-> Str("api_error"),
                        message |-> Str("Connection error: " \o detail)])])

\* BuildPayload handing the caller's `stream` on to the backend
BuildPayload_StreamPassthrough(table, b) ==
    IF ~IsDict(b) THEN Raise("AttributeError")
    ELSE LET model == Get(b, "model", Str("claude-haiku-4-5"))
             messages == Get(b, "messages", List(<<>>))
             system == Get(b, "system", Null)
             max_tokens == Get(b, "max_tokens", Num("4096"))
             temperature == Get(b, "temperature", Num("0.7"))
             stream == Get(b, "stream", Bool(FALSE))
             target_model == map_model(table, model)
             openai_messages == anthropic_messages_to_openai(messages, system)
         IN IF ~openai_messages.ok THEN openai_messages
            ELSE Return(Obj([model |-> target_model,
                             messages |-> openai_messages.val,
                             max_tokens |-> max_tokens,
                             temperature |-> temperature,
                             stream |-> stream]))

\* Lines 113-130: the fields read from the body and the payload built from them.
\* Raises when the body is not a dict or the message conversion raises.
BuildPayload(table, b) ==
    IF ~IsDict(b) THEN Raise("AttributeError")
    ELSE LET model == Get(b, "model", Str("claude-haiku-4-5"))
             messages == Get(b, "messages", List(<<>>))
             system == Get(b, "system", Null)
             max_tokens == Get(b, "max_tokens", Num("4096"))
             temperature == Get(b, "temperature", Num("0.7"))
             target_model == map_model(table, model)
             openai_messages == anthropic_messages_to_openai(messages, system)
         IN IF ~openai_messages.ok THEN openai_messages
            ELSE Return(Obj([model |-> target_model,
                             messages |-> openai_messages.val,
                             max_tokens |-> max_tokens,
                             temperature |-> temperature,
                             stream |-> Bool(FALSE)]))

\* The model echoed in the response: the local `model` of line 113
RequestedModel(b) == Get(b, "model", Str("claude-haiku-4-5"))

\* FirstOf taking the last element, seq[-1]
FirstOf_Last(choices) ==
    CASE choices.t \in {"list", "tuple"} ->
            IF choices.items = <<>> THEN Raise("IndexError")
            ELSE Return(choices.items[Len(choices.items)])
      [] choices.t = "str" ->
            IF choices.s = "" THEN Raise("IndexError") ELSE Return(Str("<char>"))
      [] choices.t = "dict" -> Raise("KeyError")
      [] OTHER -> Raise("TypeError")

\* seq[0] of line 158, on whatever `choices` is
FirstOf(choices) ==
    CASE choices.t \in {"list", "tuple"} ->
            IF choices.items = <<>> THEN Raise("IndexError")
            ELSE Return(choices.items[1])
      [] choices.t = "str" ->
            IF choices.s = "" THEN Raise("IndexError") ELSE Return(Str("<char>"))
      [] choices.t = "dict" -> Raise("KeyError")
      [] OTHER -> Raise("TypeError")

\* Line 158: data.get("choices", [{}])[0].get("message", {}).get("content", "")
ExtractText(data) ==
    IF ~IsDict(data) THEN Raise("AttributeError")
    ELSE LET first == FirstOf(Get(data, "choices", List(<<EmptyDict>>)))
         IN IF ~first.ok THEN first
            ELSE IF ~IsDict(first.val) THEN Raise("AttributeError")
            ELSE LET message == Get(first.val, "message", EmptyDict)
                 IN IF ~IsDict(message) THEN Raise("AttributeError")
                    ELSE Return(Get(message, "content", Str("")))

\* Lines 171-172: data.get("usage", {}).get(field, 0)
UsageField(data, field) ==
    LET usage == Get(data, "usage", EmptyDict)
    IN IF ~IsDict(usage) THEN Raise("AttributeError")
       ELSE Return(Get(usage, field, Num("0")))

\* Lines 157-174: the response built from the backend's JSON `data`
BuildResponse(b, data, message_id) ==
    LET text == ExtractText(data)
    IN IF ~text.ok THEN text
       ELSE LET input_tokens == UsageField(data, "prompt_tokens")
                output_tokens == UsageField(data, "completion_tokens")
            IN IF ~input_tokens.ok THEN input_tokens
               ELSE Return(Obj([id |-> Str(message_id),
                                type |-> Str("message"),
                                role |-> Str("assistant"),
                                model |-> RequestedModel(b),
                                content |-> List(<<Obj([type |-> Str("text"),
                                                        text |-> text.val])>>),
                                stop_reason |-> Str("end_turn"),
                                stop_sequence |-> Null,
                                usage |-> Obj([input_tokens |-> input_tokens.val,
                                               output_tokens |-> output_tokens.val])]))

\* Lines 137-174: what handle_messages does with the outcome `r` of the call
AfterCall(b, r, message_id) ==
    IF r.t = "transport" THEN Return(ConnectionErrorReturn(r.detail))
    ELSE IF ~(r.status \in 200..299) THEN Return(StatusErrorReturn(r))
    ELSE IF r.json = NotJson THEN Return(ConnectionErrorReturn("Expecting value"))
    ELSE BuildResponse(b, r.json, message_id)

\* f"msg_{uuid.uuid4().hex[:24]}": the identifiers a run can draw
MessageIds == {"msg_0123456789abcdef01234567", "msg_89abcdef0123456789abcdef"}

\* ReceiveRequest remembering an unknown model in the shared table
\* (DEFAULT_MODEL_MAP.setdefault(model, model))
ReceiveRequest_CachesModel(i) ==
    /\ pc[i] = "start"
    /\ IF body[i].t = "invalid"
       THEN /\ ret' = [ret EXCEPT ![i] = Return(InvalidJsonReturn(body[i].detail))]
            /\ pc' = [pc EXCEPT ![i] = "done"]
            /\ UNCHANGED <<payload, calls, modelMap>>
       ELSE LET p == BuildPayload(modelMap, body[i])
            IN IF p.ok
               THEN /\ payload' = [payload EXCEPT ![i] = p.val]
                    /\ calls' = [calls EXCEPT ![i] = @ + 1]
                    /\ pc' = [pc EXCEPT ![i] = "posting"]
                    /\ modelMap' =
                          LET m == Get(body[i], "model", Str("claude-haiku-4-5")).s
                          IN [k \in DOMAIN modelMap \cup {m} |->
                                IF k \in DOMAIN modelMap THEN modelMap[k] ELSE m]
                    /\ UNCHANGED ret
               ELSE /\ ret' = [ret EXCEPT ![i] = p]
                    /\ pc' = [pc EXCEPT ![i] = "done"]
                    /\ UNCHANGED <<payload, calls, modelMap>>
    /\ UNCHANGED <<body, reply>>

\* handle_messages up to its first backend call: parse the body, translate it
\* and post it (lines 107-143), or return / raise before any call.
ReceiveRequest(i) ==
    /\ pc[i] = "start"
    /\ IF body[i].t = "invalid"
       THEN /\ ret' = [ret EXCEPT ![i] = Return(InvalidJsonReturn(body[i].detail))]
            /\ pc' = [pc EXCEPT ![i] = "done"]
            /\ UNCHANGED <<payload, calls>>
       ELSE LET p == BuildPayload(modelMap, body[i])
            IN IF p.ok
               THEN /\ payload' = [payload EXCEPT ![i] = p.val]
                    /\ calls' = [calls EXCEPT ![i] = @ + 1]
                    /\ pc' = [pc EXCEPT ![i] = "posting"]
                    /\ UNCHANGED ret
               ELSE /\ ret' = [ret EXCEPT ![i] = p]
                    /\ pc' = [pc EXCEPT ![i] = "done"]
                    /\ UNCHANGED <<payload, calls>>
    /\ UNCHANGED <<modelMap, body, reply>>

\* The backend call completes with some outcome of `outcomes` and
\* handle_messages runs to its end (lines 143-174).
BackendCompletes(i, outcomes) ==
    /\ pc[i] = "posting"
    /\ \E r \in outcomes, message_id \in MessageIds :
          /\ reply' = [reply EXCEPT ![i] = r]
          /\ ret' = [ret EXCEPT ![i] = AfterCall(body[i], r, message_id)]
    /\ pc' = [pc EXCEPT ![i] = "done"]
    /\ UNCHANGED <<modelMap, body, payload, calls>>

----------------------------------------------------------------------------
(* Inputs: request bodies and backend outcomes                             *)

\* Marks a key left out of a dict under construction
Absent == [t |-> "absent"]
\* The dict holding the entries of record r that are not Absent
MkDict(r) == Dict([k \in {j \in DOMAIN r : r[j] # Absent} |-> r[k]])

Block(type, text) == MkDict([type |-> type, text |-> text])
Message(role, content) == MkDict([role |-> role, content |-> content])

TextBlockA == Block(Str("text"), Str("a"))
ImageBlock == Block(Str("image"), Absent)
NullTextBlock == Block(Str("text"), Null)

\* `messages` values of the request bodies
BodyMessages ==
    { Absent,
      List(<<>>),
      List(<<Message(Str("user"), Str("hi"))>>),
      List(<<Message(Str("user"), List(<<TextBlockA, ImageBlock, Block(Absent, Str("b"))>>)),
             Message(Str("assistant"), Str("yo"))>>),
      List(<<Message(Str("user"), List(<<NullTextBlock>>))>>),
      Null }

BodyModels == {Absent, Str("claude-haiku-4-5-20250514"), Str("claude-sonnet-4-5"), Str("llama3")}
BodySystems == {Absent, Str(""), Str("be terse")}
BodyMaxTokens == {Absent, Num("100")}
BodyTemperatures == {Absent, Num("0.2")}
BodyStreams == {Absent, Bool(TRUE), Bool(FALSE)}

ObjectBodies ==
    { MkDict([model |-> mo, messages |-> ms, system |-> sy, max_tokens |-> mt,
              temperature |-> te, stream |-> st]) :
        mo \in BodyModels, ms \in BodyMessages, sy \in BodySystems,
        mt \in BodyMaxTokens, te \in BodyTemperatures, st \in BodyStreams }

\* Every body of the single-request specification: unparsable, JSON that is
\* no object, and objects
Bodies == {InvalidBody("Expecting value"), List(<<>>)} \cup ObjectBodies

\* Bodies of the concurrent specification
FewBodies ==
    { InvalidBody("Expecting value"),
      MkDict([model |-> Str("claude-haiku-4-5-20250514"),
              messages |-> List(<<Message(Str("user"), Str("hi"))>>)]),
      MkDict([model |-> Str("llama3"), system |-> Str("be terse"),
              messages |-> List(<<Message(Str("user"), Str("hi"))>>)]) }

\* Elements of a backend `choices` list
Choice(message) == MkDict([message |-> message, finish_reason |-> Str("length")])
ChoiceVals ==
    { EmptyDict,
      Choice(EmptyDict),
      Choice(MkDict([content |-> Str("hi")])),
      Choice(MkDict([content |-> Null])),
      Choice(Null) }
OtherChoice == Choice(MkDict([content |-> Str("second")]))

DataChoices ==
    {Absent, Null, List(<<>>)}
      \cup {List(<<c>>) : c \in ChoiceVals}
      \cup {List(<<c, OtherChoice>>) : c \in ChoiceVals}
DataUsages ==
    { Absent, Null, EmptyDict,
      MkDict([prompt_tokens |-> Num("3")]),
      MkDict([prompt_tokens |-> Num("3"), completion_tokens |-> Num("1")]) }

\* JSON bodies of 2xx replies
BackendData ==
    {List(<<>>)} \cup {MkDict([choices |-> c, usage |-> u]) : c \in DataChoices, u \in DataUsages}

\* Every outcome of the backend call in the single-request specification
BackendOutcomes ==
    {TransportFailure("timed out"), TransportFailure("All connection attempts failed")}
      \cup {HttpReply(500, "oops", NotJson), HttpReply(404, "", NotJson),
            HttpReply(400, "{\"error\":\"bad\"}", MkDict([error |-> Str("bad")]))}
      \cup {HttpReply(200, "<html>", NotJson)}
      \cup {HttpReply(200, "<json>", d) : d \in BackendData}

\* Outcomes of the concurrent specification
FewOutcomes ==
    { TransportFailure("timed out"),
      HttpReply(500, "oops", NotJson),
      HttpReply(200, "<json>", EmptyDict),
      HttpReply(200, "<json>",
                MkDict([choices |-> List(<<Choice(MkDict([content |-> Str("hi")]))>>),
                        usage |-> MkDict([prompt_tokens |-> Num("3"),
                                          completion_tokens |-> Num("1")])])) }

----------------------------------------------------------------------------
(* Specifications of the proxy                                             *)

IdlePure == input = Null /\ output = Null
IdleTemplate ==
    /\ args = Null /\ fs = Null /\ fs0 = Null /\ tpc = "idle" /\ stdout = <<>>

InitProxy(requests, bodies) ==
    /\ modelMap = DEFAULT_MODEL_MAP
    /\ body \in [requests -> bodies]
    /\ pc = [i \in requests |-> "start"]
    /\ payload = [i \in requests |-> Null]
    /\ calls = [i \in requests |-> 0]
    /\ reply = [i \in requests |-> Null]
    /\ ret = [i \in requests |-> Null]
    /\ IdlePure
    /\ IdleTemplate

\* One request, every body and every backend outcome
Init == InitProxy({1}, Bodies)
Receive == \E i \in DOMAIN pc : ReceiveRequest(i) /\ UNCHANGED <<pureVars, templateVars>>
Complete ==
    \E i \in DOMAIN pc : BackendCompletes(i, BackendOutcomes) /\ UNCHANGED <<pureVars, templateVars>>
Next == Receive \/ Complete
Spec == Init /\ [][Next]_vars

\* NumRequests requests handled concurrently on one event loop
InitConcurrent == InitProxy(1..NumRequests, FewBodies)
CompleteAny ==
    \E i \in DOMAIN pc : BackendCompletes(i, FewOutcomes) /\ UNCHANGED <<pureVars, templateVars>>
NextConcurrent == Receive \/ CompleteAny
SpecConcurrent == InitConcurrent /\ [][NextConcurrent]_vars

----------------------------------------------------------------------------
(* The helpers on their own: extract_text_from_content and                 *)
(* anthropic_messages_to_openai applied to one drawn argument list         *)

\* Elements of a content list: dicts with or without `type` and `text`, a bare
\* string and a number
ContentItems ==
    {Block(ty, tx) : ty \in {Absent, Str("text"), Str("image")},
                     tx \in {Absent, Str("a"), Str("b"), Str(""), Null}}
      \cup {Str("s"), Num("7")}

ContentValues ==
    {Null, Str(""), Str("hi"), Num("42"), Bool(TRUE)}
      \cup {List(q) : q \in SeqsUpTo(ContentItems, MaxBlocks)}

\* Elements of a message list: dicts with or without role and content, and a
\* bare string
MessageValues ==
    {Message(r, c) : r \in {Absent, Str("user"), Str("tool")},
                     c \in {Absent, Null, Str("hi"),
                            List(<<TextBlockA, ImageBlock>>),
                            List(<<TextBlockA, Block(Absent, Str("b"))>>),
                            List(<<NullTextBlock>>)}}
      \cup {Str("oops")}

SystemValues == {Null, Str(""), Str("be terse")}

NormalizeInputs == {[fn |-> "normalize", content |-> c] : c \in ContentValues}
TranslateInputs ==
    {[fn |-> "translate", messages |-> List(q), system |-> sy] :
        q \in SeqsUpTo(MessageValues, MaxMsgs), sy \in SystemValues}

IdleProxy ==
    /\ modelMap = DEFAULT_MODEL_MAP
    /\ body = <<>> /\ pc = <<>> /\ payload = <<>> /\ calls = <<>>
    /\ reply = <<>> /\ ret = <<>>

InitPure ==
    /\ input \in NormalizeInputs \cup TranslateInputs
    /\ output = Null
    /\ IdleProxy
    /\ IdleTemplate

Normalize ==
    /\ input.fn = "normalize" /\ output = Null
    /\ output' = extract_text_from_content(input.content)
    /\ UNCHANGED <<input, proxyVars, templateVars>>

Translate ==
    /\ input.fn = "translate" /\ output = Null
    /\ output' = anthropic_messages_to_openai(input.messages, input.system)
    /\ UNCHANGED <<input, proxyVars, templateVars>>

NextPure == Normalize \/ Translate
SpecPure == InitPure /\ [][NextPure]_vars

----------------------------------------------------------------------------
(* apply_template.py                                                       *)

\* Characters a --tool-name is drawn from
NameChars == {"a", "1", "-", "_", "A", "\n"}
ToolNames == SeqsUpTo(NameChars, MaxNameLen)

LowerAlnum ==
    {"a", "b", "c", "d", "e", "f", "g", "h", "i", "j", "k", "l", "m", "n", "o",
     "p", "q", "r", "s", "t", "u", "v", "w", "x", "y", "z",
     "0", "1", "2", "3", "4", "5", "6", "7", "8", "9"}
Lower == LowerAlnum \ {"0", "1", "2", "3", "4", "5", "6", "7", "8", "9"}

\* `$` of a Python pattern matches at the end and before a final newline
BeforeDollar(name) ==
    IF name # <<>> /\ name[Len(name)] = "\n" THEN {name, SubSeq(name, 1, Len(name) - 1)}
    ELSE {name}

\* [a-z0-9]+(?:-[a-z0-9]+)*
IsKebab(w) ==
    /\ w # <<>>
    /\ \A k \in 1..Len(w) : w[k] \in LowerAlnum \cup {"-"}
    /\ w[1] # "-" /\ w[Len(w)] # "-"
    /\ \A k \in 1..(Len(w) - 1) : ~(w[k] = "-" /\ w[k + 1] = "-")

\* [a-z_][a-z0-9_]*
IsSnake(w) ==
    /\ w # <<>>
    /\ w[1] \in Lower \cup {"_"}
    /\ \A k \in 1..Len(w) : w[k] \in LowerAlnum \cup {"_"}

\* TOOL_NAME_RE.match(name) / MODULE_NAME_RE.match(name)
MatchesToolNameRe(name) == \E w \in BeforeDollar(name) : IsKebab(w)
MatchesModuleNameRe(name) == \E w \in BeforeDollar(name) : IsSnake(w)

\* tool_name.replace("-", "_") and f"{tool_name}-skill"
ModuleNameOf(tool_name) ==
    [k \in 1..Len(tool_name) |-> IF tool_name[k] = "-" THEN "_" ELSE tool_name[k]]
SkillNameOf(tool_name) == tool_name \o <<"-", "s", "k", "i", "l", "l">>

\* validate_module_name with a pattern that lets a leading digit through
validate_module_name_AllowsLeadingDigit(module_name) ==
    IF /\ module_name # <<>>
       /\ \A k \in 1..Len(module_name) : module_name[k] \in LowerAlnum \cup {"_"}
    THEN ""
    ELSE "Invalid module name."

\* validate_tool_name, validate_module_name, validate_skill_name: the message
\* of the SystemExit raised, or "" when the name passes
validate_tool_name(tool_name) ==
    IF MatchesToolNameRe(tool_name) THEN "" ELSE "Invalid tool name."
validate_module_name(module_name) ==
    IF MatchesModuleNameRe(module_name) THEN "" ELSE "Invalid module name."
validate_skill_name(skill_name) ==
    IF MatchesToolNameRe(skill_name) THEN "" ELSE "Invalid skill name."

\* Directories: absent, present with the user's own content, or a copied
\* template tree (its placeholders replaced or not, its module folder's name)
NoDir == [t |-> "absent"]
UserDir == [t |-> "user"]
Tree(template, replaced, module_dir) ==
    [t |-> "tree", template |-> template, replaced |-> replaced, module_dir |-> module_dir]
Exists(d) == d # NoDir

\* The two paths main() touches; skill_dest is dest_dir itself when the
\* basename of --dest is the skill name
Paths == {"dest", "skill"}

InitTemplate ==
    /\ args \in [tool_name : ToolNames, no_skill : BOOLEAN,
                 dest_dir : {"dest"}, skill_dest : Paths]
    /\ fs \in [Paths -> {NoDir, UserDir}]
    /\ fs0 = fs
    /\ tpc = "validate"
    /\ stdout = <<>>
    /\ IdlePure
    /\ IdleProxy

\* Lines 104-110: the three name checks and the destination check, each
\* raising SystemExit; none writes
Validate ==
    /\ tpc = "validate"
    /\ LET module_name == ModuleNameOf(args.tool_name)
           skill_name == SkillNameOf(args.tool_name)
           failure ==
               IF validate_tool_name(args.tool_name) # ""
               THEN validate_tool_name(args.tool_name)
               ELSE IF validate_module_name(module_name) # ""
               THEN validate_module_name(module_name)
               ELSE IF validate_skill_name(skill_name) # ""
               THEN validate_skill_name(skill_name)
               ELSE IF Exists(fs[args.dest_dir]) THEN "Destination already exists"
               ELSE ""
       IN IF failure # ""
          THEN tpc' = "exit" /\ stdout' = Append(stdout, failure)
          ELSE tpc' = "copy" /\ UNCHANGED stdout
    /\ UNCHANGED <<args, fs, fs0, proxyVars, pureVars>>

\* Lines 113-114: shutil.copytree(template_dir, dest_dir)
CopyTemplate ==
    /\ tpc = "copy"
    /\ stdout' = Append(stdout, "Creating CLI project")
    /\ fs' = [fs EXCEPT ![args.dest_dir] = Tree("cli-template", FALSE, <<"m", "y", "_", "t", "o", "o", "l">>)]
    /\ tpc' = "replace"
    /\ UNCHANGED <<args, fs0, proxyVars, pureVars>>

\* Line 117: replace_in_tree(dest_dir, ...)
ReplaceInProject ==
    /\ tpc = "replace"
    /\ fs' = [fs EXCEPT ![args.dest_dir].replaced = TRUE]
    /\ tpc' = "rename"
    /\ UNCHANGED <<args, fs0, stdout, proxyVars, pureVars>>

\* Lines 120-125: src/my_tool is renamed to src/<module_name>
RenameModule ==
    /\ tpc = "rename"
    /\ fs' = [fs EXCEPT ![args.dest_dir].module_dir = ModuleNameOf(args.tool_name)]
    /\ stdout' = Append(stdout, "Renamed module")
    /\ tpc' = "skill"
    /\ UNCHANGED <<args, fs0, proxyVars, pureVars>>

\* Lines 128-135: the paired skill, unless --no-skill or it is already there
PairedSkill ==
    /\ tpc = "skill"
    /\ IF args.no_skill
       THEN UNCHANGED <<fs, stdout>>
       ELSE IF Exists(fs[args.skill_dest])
            THEN /\ stdout' = Append(stdout, "Warning: Skill destination already exists")
                 /\ UNCHANGED fs
            ELSE /\ stdout' = Append(stdout, "Creating paired skill")
                 /\ fs' = [fs EXCEPT ![args.skill_dest] = Tree("tool-skill-template", TRUE, <<>>)]
    /\ tpc' = "finish"
    /\ UNCHANGED <<args, fs0, proxyVars, pureVars>>

\* Lines 137-144: the closing hints, return 0
Finish ==
    /\ tpc = "finish"
    /\ stdout' = Append(stdout, "Next steps:")
    /\ tpc' = "done"
    /\ UNCHANGED <<args, fs, fs0, proxyVars, pureVars>>

NextTemplate ==
    Validate \/ CopyTemplate \/ ReplaceInProject \/ RenameModule \/ PairedSkill \/ Finish
SpecTemplate == InitTemplate /\ [][NextTemplate]_vars

----------------------------------------------------------------------------
(* Properties of the proxy                                                 *)

Contains(s, sub) ==
    \E a \in 0..(Len(s) - Len(sub)) : SubSeq(s, a + 1, a + Len(sub)) = sub

Done(i) == pc[i] = "done"
Returned(i) == Done(i) /\ ret[i].ok

\* {type: "error", error: {type, message}} with string type and message
IsErrorEnvelope(v) ==
    /\ IsDict(v)
    /\ DOMAIN v.d = {"type", "error"}
    /\ v.d["type"] = Str("error")
    /\ IsDict(v.d["error"])
    /\ DOMAIN v.d["error"].d = {"type", "message"}
    /\ IsStr(v.d["error"].d["type"])
    /\ IsStr(v.d["error"].d["message"])

ErrorType(v) == v.d["error"].d["type"].s
ErrorMessage(v) == v.d["error"].d["message"].s

\* A success envelope: a dict with the keys of SourceResponse and type "message"
IsSourceResponse(v) ==
    /\ IsDict(v)
    /\ DOMAIN v.d = {"id", "type", "role", "model", "content", "stop_reason",
                     "stop_sequence", "usage"}
    /\ v.d["type"] = Str("message")

BodyParsed(i) == body[i].t # "invalid"
NonSuccessReply(i) == reply[i].t = "http" /\ reply[i].status \notin 200..299
TransportFailed(i) == reply[i].t = "transport"
SuccessJsonObject(i) ==
    reply[i].t = "http" /\ reply[i].status \in 200..299 /\ IsDict(reply[i].json)

\* The two backend failure kinds are answered with an api_error envelope
\* whose message carries the status code and the body text (holds).
BackendFailuresEnveloped ==
    \A i \in DOMAIN pc : Done(i) =>
        /\ NonSuccessReply(i) =>
              /\ ret[i].ok /\ IsErrorEnvelope(ret[i].val)
              /\ ErrorType(ret[i].val) = "api_error"
              /\ Contains(ErrorMessage(ret[i].val), ToString(reply[i].status))
              /\ Contains(ErrorMessage(ret[i].val), reply[i].text)
        /\ TransportFailed(i) =>
              /\ ret[i].ok /\ IsErrorEnvelope(ret[i].val)
              /\ ErrorType(ret[i].val) = "api_error"

\* C1: for each of the three failure kinds (unparsable inbound body, non-2xx
\* backend status, transport failure) handle_messages returns a well-formed
\* ErrorEnvelope {type: "error", error: {type, message}}: invalid_request_error
\* for the unparsable body, api_error with the status code and body text for a
\* non-2xx reply, api_error for a transport failure; none raises.
C1_ErrorEnvelopes ==
    /\ BackendFailuresEnveloped
    /\ \A i \in DOMAIN pc : (Done(i) /\ ~BodyParsed(i)) =>
          /\ ret[i].ok
          /\ IsErrorEnvelope(ret[i].val)
          /\ ErrorType(ret[i].val) = "invalid_request_error"

\* A backend JSON object shaped like TargetResponse with any field left out:
\* every field that is present has the type TargetResponse gives it.
PartialTargetResponse(data) ==
    /\ IsDict(data)
    /\ HasKey(data, "choices") =>
          /\ IsList(data.d["choices"])
          /\ \A k \in 1..Len(data.d["choices"].items) :
                LET c == data.d["choices"].items[k]
                IN /\ IsDict(c)
                   /\ HasKey(c, "message") =>
                         /\ IsDict(c.d["message"])
                         /\ HasKey(c.d["message"], "content") =>
                               IsStr(c.d["message"].d["content"])
    /\ HasKey(data, "usage") =>
          /\ IsDict(data.d["usage"])
          /\ \A f \in DOMAIN data.d["usage"].d : data.d["usage"].d[f].t = "num"

\* choices[0].message.content is there
HasContentPath(data) ==
    /\ HasKey(data, "choices")
    /\ IsList(data.d["choices"])
    /\ data.d["choices"].items # <<>>
    /\ IsDict(data.d["choices"].items[1])
    /\ HasKey(data.d["choices"].items[1], "message")
    /\ IsDict(data.d["choices"].items[1].d["message"])
    /\ HasKey(data.d["choices"].items[1].d["message"], "content")

ResponseText(v) == v.d["content"].items[1].d["text"]

\* C2: for every 2xx backend reply that is a JSON object, with choices absent,
\* empty, or any level of choices[0].message.content missing, handle_messages
\* returns a SourceResponse whose text is "", and with usage or its fields
\* absent the token counts are 0; it never raises.
C2_ResponseTranslatorNeverFails ==
    \A i \in DOMAIN pc :
        (Done(i) /\ SuccessJsonObject(i) /\ PartialTargetResponse(reply[i].json)) =>
            /\ ret[i].ok
            /\ IsSourceResponse(ret[i].val)
            /\ ~HasContentPath(reply[i].json) => ResponseText(ret[i].val) = Str("")
            /\ \A f \in {"prompt_tokens", "completion_tokens"} :
                  ~(HasKey(reply[i].json, "usage") /\ HasKey(reply[i].json.d["usage"], f)) =>
                      ret[i].val.d["usage"].d[
                          IF f = "prompt_tokens" THEN "input_tokens" ELSE "output_tokens"]
                        = Num("0")

\* A body shaped like SourceRequest: an object whose messages are dicts with
\* string or block-list content whose text fields are strings.
WellTypedContent(c) ==
    \/ IsStr(c)
    \/ /\ IsList(c)
       /\ \A k \in 1..Len(c.items) :
             /\ IsDict(c.items[k])
             /\ HasKey(c.items[k], "text") => IsStr(c.items[k].d["text"])
WellTypedRequest(b) ==
    /\ IsDict(b)
    /\ HasKey(b, "messages") =>
          /\ IsList(b.d["messages"])
          /\ \A k \in 1..Len(b.d["messages"].items) :
                LET m == b.d["messages"].items[k]
                IN IsDict(m) /\ (HasKey(m, "content") => WellTypedContent(m.d["content"]))

\* The backend is never called twice for one request, and never for an
\* unparsable body (holds).
AtMostOneCall ==
    \A i \in DOMAIN pc : calls[i] <= 1 /\ (~BodyParsed(i) => calls[i] = 0)

\* C3: the backend is called at most once per request: exactly once when the
\* body parsed, never when it did not, never again after a failure; and after
\* the call the request ends with a success envelope or an error envelope.
C3_SingleCallThenResponse ==
    /\ AtMostOneCall
    /\ \A i \in DOMAIN pc :
          /\ (pc[i] # "start" /\ WellTypedRequest(body[i])) => calls[i] = 1
          /\ (Done(i) /\ calls[i] = 1
                /\ (SuccessJsonObject(i) => PartialTargetResponse(reply[i].json))
                /\ (reply[i].t = "http" /\ reply[i].status \in 200..299
                      => IsDict(reply[i].json) \/ reply[i].json = NotJson)) =>
                /\ ret[i].ok
                /\ IsSourceResponse(ret[i].val) \/ IsErrorEnvelope(ret[i].val)

\* The model the request asked for: its `model` field, or the handler's default
AskedModel(b) == IF HasKey(b, "model") THEN b.d["model"] ELSE Str("claude-haiku-4-5")

\* C4: the model sent to the backend is the table's entry for the requested
\* model when it has one and the requested model itself otherwise, and the
\* model of the SourceResponse is the requested model, never the resolved one.
C4_ModelResolvedAndEchoed ==
    \A i \in DOMAIN pc :
        /\ payload[i] # Null =>
              LET m == AskedModel(body[i])
              IN /\ m.s \in DOMAIN DEFAULT_MODEL_MAP =>
                        payload[i].d["model"] = Str(DEFAULT_MODEL_MAP[m.s])
                 /\ m.s \notin DOMAIN DEFAULT_MODEL_MAP => payload[i].d["model"] = m
                 /\ m = Str("claude-haiku-4-5-20250514") =>
                        payload[i].d["model"] = Str("claude-haiku-4-5:latest")
        /\ (Returned(i) /\ IsSourceResponse(ret[i].val)) =>
              ret[i].val.d["model"] = AskedModel(body[i])

\* A request for claude-haiku-4-5-20250514 was sent as claude-haiku-4-5:latest
\* and answered under its original name
C4_Witness ==
    \E i \in DOMAIN pc :
        /\ Returned(i) /\ IsSourceResponse(ret[i].val)
        /\ HasKey(body[i], "model")
        /\ body[i].d["model"] = Str("claude-haiku-4-5-20250514")
        /\ payload[i].d["model"] = Str("claude-haiku-4-5:latest")
        /\ ret[i].val.d["model"] = Str("claude-haiku-4-5-20250514")

\* C7: every request sent to the backend has stream false whatever the inbound
\* stream, and max_tokens and temperature equal to the inbound values, or to
\* 4096 and 0.7 when the inbound field is left out.
C7_StreamForcedFalse ==
    \A i \in DOMAIN pc : payload[i] # Null =>
        /\ payload[i].d["stream"] = Bool(FALSE)
        /\ payload[i].d["max_tokens"] =
              IF HasKey(body[i], "max_tokens") THEN body[i].d["max_tokens"] ELSE Num("4096")
        /\ payload[i].d["temperature"] =
              IF HasKey(body[i], "temperature") THEN body[i].d["temperature"] ELSE Num("0.7")

\* A request with stream: true and no max_tokens was posted
C7_Witness ==
    \E i \in DOMAIN pc :
        /\ calls[i] = 1
        /\ HasKey(body[i], "stream") /\ body[i].d["stream"] = Bool(TRUE)
        /\ ~HasKey(body[i], "max_tokens")
        /\ HasKey(body[i], "temperature")
        /\ payload[i].d["stream"] = Bool(FALSE)
        /\ payload[i].d["max_tokens"] = Num("4096")

\* C8: for a backend success reply the SourceResponse has type "message", role
\* "assistant", stop_sequence null, stop_reason "end_turn", a content list of
\* exactly one text block holding choices[0].message.content, and usage counts
\* equal to the backend's prompt_tokens and completion_tokens.
C8_ResponseEnvelope ==
    \A i \in DOMAIN pc : (Returned(i) /\ SuccessJsonObject(i)) =>
        LET v == ret[i].val
            data == reply[i].json
        IN /\ IsSourceResponse(v)
           /\ v.d["role"] = Str("assistant")
           /\ v.d["stop_reason"] = Str("end_turn")
           /\ v.d["stop_sequence"] = Null
           /\ IsList(v.d["content"]) /\ Len(v.d["content"].items) = 1
           /\ DOMAIN v.d["content"].items[1].d = {"type", "text"}
           /\ v.d["content"].items[1].d["type"] = Str("text")
           /\ HasContentPath(data) =>
                 ResponseText(v) = data.d["choices"].items[1].d["message"].d["content"]
           /\ DOMAIN v.d["usage"].d = {"input_tokens", "output_tokens"}
           /\ (HasKey(data, "usage") /\ HasKey(data.d["usage"], "prompt_tokens")) =>
                 v.d["usage"].d["input_tokens"] = data.d["usage"].d["prompt_tokens"]
           /\ (HasKey(data, "usage") /\ HasKey(data.d["usage"], "completion_tokens")) =>
                 v.d["usage"].d["output_tokens"] = data.d["usage"].d["completion_tokens"]
           /\ v.d["id"].s \in MessageIds

\* The backend answered with two choices, the first saying "hi", a finish
\* reason of "length" and usage 3 / 1
C8_Witness ==
    \E i \in DOMAIN pc :
        /\ Returned(i) /\ SuccessJsonObject(i)
        /\ HasContentPath(reply[i].json)
        /\ Len(reply[i].json.d["choices"].items) = 2
        /\ reply[i].json.d["choices"].items[1].d["finish_reason"] = Str("length")
        /\ ResponseText(ret[i].val) = Str("hi")
        /\ ret[i].val.d["usage"] =
              Obj([input_tokens |-> Num("3"), output_tokens |-> Num("1")])

\* A response without its generated id
WithoutId(r) ==
    IF r.ok /\ IsSourceResponse(r.val)
    THEN Return(Dict([k \in DOMAIN r.val.d \ {"id"} |-> r.val.d[k]]))
    ELSE r

\* C9 as stated: the table keeps its startup value, and the response to a
\* request is a function of its own body and its own backend reply alone.
C9_ResponseFunctionOfOwnRequest ==
    /\ modelMap = DEFAULT_MODEL_MAP
    /\ \A i, j \in DOMAIN pc :
          (Done(i) /\ Done(j) /\ body[i] = body[j] /\ reply[i] = reply[j]) =>
              ret[i] = ret[j]

\* C9, amended: under any interleaving the table keeps its startup value, and
\* the response to a request, apart from its freshly generated id, is a
\* function of its own body and its own backend reply alone.
C9_IsolatedUpToId ==
    /\ modelMap = DEFAULT_MODEL_MAP
    /\ \A i, j \in DOMAIN pc :
          (Done(i) /\ Done(j) /\ body[i] = body[j] /\ reply[i] = reply[j]) =>
              WithoutId(ret[i]) = WithoutId(ret[j])
    /\ \A i \in DOMAIN pc :
          /\ payload[i] # Null => payload[i] = BuildPayload(DEFAULT_MODEL_MAP, body[i]).val
          /\ (Done(i) /\ reply[i] # Null) =>
                \E id \in MessageIds : ret[i] = AfterCall(body[i], reply[i], id)

\* Two requests with the same body got the same backend reply and answered
\* with responses that differ in their id and in nothing else
C9_Witness ==
    \E i, j \in DOMAIN pc :
        /\ i # j /\ Returned(i) /\ Returned(j)
        /\ body[i] = body[j] /\ reply[i] = reply[j]
        /\ IsSourceResponse(ret[i].val)
        /\ ret[i].val.d["id"] # ret[j].val.d["id"]
        /\ WithoutId(ret[i]) = WithoutId(ret[j])

----------------------------------------------------------------------------
(* Properties of the helpers                                               *)

Applied(fn) == input # Null /\ input.fn = fn /\ output # Null

SystemMessage(system) ==
    Dict([k \in {"role", "content"} |-> IF k = "role" THEN Str("system") ELSE system])

\* C5: the target message list is one leading {role: "system", content: system}
\* message if and only if system is present and non-empty, followed by one
\* message per source message in the original order, each with the source role
\* and content normalize(source content); its length is len(messages) + 1 or 0.
C5_TargetMessageList ==
    (Applied("translate") /\ output.ok) =>
        LET msgs == input.messages.items
            out == output.val.items
            hasSystem == input.system \notin {Null, Str("")}
            off == IF hasSystem THEN 1 ELSE 0
        IN /\ Len(out) = Len(msgs) + off
           /\ hasSystem => out[1] = SystemMessage(input.system)
           /\ \A k \in 1..Len(msgs) :
                 /\ DOMAIN out[k + off].d = {"role", "content"}
                 /\ HasKey(msgs[k], "role") => out[k + off].d["role"] = msgs[k].d["role"]
                 /\ out[k + off].d["content"] =
                       extract_text_from_content(Get(msgs[k], "content", Null)).val

\* system "be terse" and [{"role": "user", "content": "hi"}] were translated
C5_Witness ==
    /\ Applied("translate")
    /\ input.system = Str("be terse")
    /\ input.messages = List(<<Message(Str("user"), Str("hi"))>>)
    /\ output = Return(List(<<SystemMessage(Str("be terse")),
                             Message(Str("user"), Str("hi"))>>))

\* The text a block contributes, as the data model gives it: <<text>> or <<>>
BlockText(item) ==
    IF Get(item, "type", Null) = Str("text") THEN <<Get(item, "text", Str(""))>>
    ELSE IF HasKey(item, "text") THEN <<item.d["text"]>>
    ELSE <<>>

RECURSIVE BlockTexts(_)
BlockTexts(items) ==
    IF items = <<>> THEN <<>>
    ELSE BlockTexts(SubSeq(items, 1, Len(items) - 1)) \o BlockText(items[Len(items)])

\* texts joined by single newlines, no trailing one
RECURSIVE Joined(_)
Joined(texts) ==
    IF texts = <<>> THEN ""
    ELSE IF Len(texts) = 1 THEN texts[1].s
    ELSE Joined(SubSeq(texts, 1, Len(texts) - 1)) \o "\n" \o texts[Len(texts)].s

AllBlocks(content) ==
    IsList(content) /\ \A k \in 1..Len(content.items) : IsDict(content.items[k])

\* The cases of C6, for an input on which the normalizer returned
NormalizedAsSpecified ==
    (Applied("normalize") /\ output.ok) =>
        /\ IsStr(output.val)
        /\ IsNone(input.content) => output.val = Str("")
        /\ IsStr(input.content) => output.val = input.content
        /\ AllBlocks(input.content) =>
              output.val = Str(Joined(BlockTexts(input.content.items)))

\* C6: extract_text_from_content is total and never fails: null content gives
\* "", plain text is returned unchanged, and a sequence of blocks gives the
\* texts of its text blocks joined by single newlines in order, every other
\* block contributing nothing.
C6_NormalizeTotal ==
    /\ Applied("normalize") => output.ok
    /\ NormalizedAsSpecified

\* On content whose text fields are strings the normalizer returns (holds)
NormalizeReturnsOnTypedContent ==
    (Applied("normalize") /\ (IsList(input.content) =>
        \A k \in 1..Len(input.content.items) :
            LET item == input.content.items[k]
            IN (IsDict(item) /\ HasKey(item, "text")) => IsStr(item.d["text"])))
      => output.ok

----------------------------------------------------------------------------
(* Properties of apply_template                                            *)

NamesValid ==
    /\ MatchesToolNameRe(args.tool_name)
    /\ MatchesModuleNameRe(ModuleNameOf(args.tool_name))
    /\ MatchesToolNameRe(SkillNameOf(args.tool_name))

IsProject(d) == d.t = "tree" /\ d.template = "cli-template"

\* C10: name validation and the destination check come before any write: a run
\* rejected for an invalid name or an existing destination creates, renames and
\* modifies nothing, and a run that proceeds leaves an already existing
\* paired-skill directory unchanged, warns, and still creates the CLI project.
C10_ValidateBeforeWrite ==
    tpc # "idle" =>
        /\ fs # fs0 => (NamesValid /\ ~Exists(fs0[args.dest_dir]))
        /\ (~NamesValid \/ Exists(fs0[args.dest_dir])) => tpc \in {"validate", "exit"}
        /\ tpc = "exit" => fs = fs0
        /\ (tpc = "done" /\ Exists(fs0[args.skill_dest])) =>
              /\ fs[args.skill_dest] = fs0[args.skill_dest]
              /\ IsProject(fs[args.dest_dir])
              /\ fs[args.dest_dir].replaced
              /\ fs[args.dest_dir].module_dir = ModuleNameOf(args.tool_name)
              /\ ~args.no_skill =>
                    \E k \in 1..Len(stdout) :
                        stdout[k] = "Warning: Skill destination already exists"

\* A run finished with the CLI project created beside a paired-skill directory
\* that was there before and is as it was
C10_Witness ==
    /\ tpc = "done"
    /\ ~args.no_skill
    /\ fs0[args.skill_dest] = UserDir
    /\ fs[args.skill_dest] = UserDir
    /\ IsProject(fs[args.dest_dir])

\* A run was rejected although its tool name alone is valid
C10_RejectedWitness ==
    /\ tpc = "exit"
    /\ MatchesToolNameRe(args.tool_name)
    /\ ~Exists(fs0[args.dest_dir])
    /\ fs = fs0

====
